---------------------------- MODULE Spec2Model ----------------------------
(***************************************************************************)
(* Model of the ODIN secure-communication gateway: the envelope verifier   *)
(* (libs/odin, services/gateway/envelope.py), the HEL-lite policy gate,    *)
(* the receipt signer and chain builder (services/gateway/app.py) over     *)
(* the storage contract (services/gateway/storage), and the key loader     *)
(* (services/gateway/jwks_loader.py).                                      *)
(*                                                                         *)
(* Text (Python str) is a sequence of one-character strings, bytes is a   *)
(* sequence of integers 0..255.                                           *)
(***************************************************************************)
EXTENDS Integers, Sequences, FiniteSets, TLC

\* ------------------------------------------------------------------ text

\* The position of character c in the table tab, 0 when absent.
IndexOf(tab, c) ==
    IF \E i \in DOMAIN tab : tab[i] = c
    THEN CHOOSE i \in DOMAIN tab : tab[i] = c
    ELSE 0

\* The standard base64 alphabet (base64.b64decode's table).
StdAlphabet ==
    << "A","B","C","D","E","F","G","H","I","J","K","L","M","N","O","P",
       "Q","R","S","T","U","V","W","X","Y","Z","a","b","c","d","e","f",
       "g","h","i","j","k","l","m","n","o","p","q","r","s","t","u","v",
       "w","x","y","z","0","1","2","3","4","5","6","7","8","9","+","/" >>

\* One character of urlsafe_b64encode's translation: "+" -> "-", "/" -> "_".
ToUrlSafe(c) == IF c = "+" THEN "-" ELSE IF c = "/" THEN "_" ELSE c

\* One character of urlsafe_b64decode's translation: "-" -> "+", "_" -> "/".
FromUrlSafe(c) == IF c = "-" THEN "+" ELSE IF c = "_" THEN "/" ELSE c

\* The character of a 6-bit value in the URL-safe alphabet.
UrlChar(v) == ToUrlSafe(StdAlphabet[v + 1])

\* base64.urlsafe_b64encode: three bytes to four characters, "=" padded.
\* Character j belongs to the group of bytes b1 b2 b3 at 3k+1..3k+3.
UrlsafeB64Encode(b) ==
    [j \in 1..(4 * ((Len(b) + 2) \div 3)) |->
        LET k  == (j - 1) \div 4
            r  == (j - 1) % 4
            b1 == b[3 * k + 1]
            has2 == 3 * k + 2 <= Len(b)
            has3 == 3 * k + 3 <= Len(b)
            b2 == IF has2 THEN b[3 * k + 2] ELSE 0
            b3 == IF has3 THEN b[3 * k + 3] ELSE 0
        IN  IF r = 0 THEN UrlChar(b1 \div 4)
            ELSE IF r = 1 THEN UrlChar((b1 % 4) * 16 + (b2 \div 16))
            ELSE IF r = 2 THEN
                IF has2 THEN UrlChar((b2 % 16) * 4 + (b3 \div 64)) ELSE "="
            ELSE IF has3 THEN UrlChar(b3 % 64) ELSE "="]

RECURSIVE RstripEq(_)
\* bytes.rstrip(b"="): drop every trailing "=".
RstripEq(s) ==
    IF Len(s) > 0 /\ s[Len(s)] = "=" THEN RstripEq(SubSeq(s, 1, Len(s) - 1))
    ELSE s

\* A mutant of b64url_no_pad: the padding is kept.
B64urlNoPadKeepsPadding(b) == UrlsafeB64Encode(b)

\* libs.odin.crypto.b64url_no_pad
b64url_no_pad(b) == RstripEq(UrlsafeB64Encode(b))

\* Whether c is a character of the base64 alphabet, URL-safe or standard.
IsB64Char(c) == IndexOf(StdAlphabet, FromUrlSafe(c)) # 0

\* The 6-bit value of a character of the alphabet.
B64Value(c) == IndexOf(StdAlphabet, FromUrlSafe(c)) - 1

\* binascii.a2b_base64 in its default (non strict) mode, on text whose
\* URL-safe characters were translated.  Characters outside the alphabet are
\* skipped.  quad_pos is the count of data characters read, modulo 4; a "="
\* read at quad_pos >= 2 counts as padding, and the padding that completes
\* the quad ends the data.  Without such an end an incomplete quad is an
\* error.  The left-over bits of the last character are dropped.  The sets
\* of one element bind the text and its data characters to their values.
A2bBase64(text) ==
    LET Bytes(d) ==
            LET rem == Len(d) % 4
                n == 3 * (Len(d) \div 4) + (IF rem = 0 THEN 0 ELSE rem - 1)
            IN  [j \in 1..n |->
                    LET k == (j - 1) \div 3
                        r == (j - 1) % 3
                        v1 == B64Value(d[4 * k + 1])
                        v2 == B64Value(d[4 * k + 2])
                    IN  IF r = 0 THEN v1 * 4 + (v2 \div 16)
                        ELSE LET v3 == B64Value(d[4 * k + 3])
                             IN  IF r = 1 THEN (v2 % 16) * 16 + (v3 \div 4)
                                 ELSE (v3 % 4) * 64
                                      + B64Value(d[4 * k + 4])]
        Decoded(s) ==
            LET DataBefore(i) == { p \in 1..(i - 1) : IsB64Char(s[p]) }
                QuadPos(i) == Cardinality(DataBefore(i)) % 4
                PadsBefore(i) ==
                    Cardinality({ p \in 1..(i - 1) :
                                    /\ s[p] = "="
                                    /\ \A q \in DataBefore(i) : q < p })
                Ends(i) == /\ s[i] = "="
                           /\ QuadPos(i) >= 2
                           /\ QuadPos(i) + PadsBefore(i) + 1 >= 4
                ended == \E i \in 1..Len(s) : Ends(i)
                stop  == IF ended
                         THEN CHOOSE i \in 1..Len(s) :
                                Ends(i) /\ \A p \in 1..(i - 1) : ~Ends(p)
                         ELSE Len(s) + 1
            IN  CHOOSE result \in
                    { IF ~ended /\ Len(d) % 4 # 0
                      THEN [ok |-> FALSE, err |-> "binascii.Error"]
                      ELSE [ok |-> TRUE, bytes |-> Bytes(d)] :
                        d \in { SelectSeq(SubSeq(s, 1, stop - 1),
                                          IsB64Char) } } : TRUE
    IN  CHOOSE result \in { Decoded(s) : s \in { text } } : TRUE

\* The "=" * n of the decoders.
Pad(n) == [i \in 1..n |-> "="]

\* A mutant of b64url_to_bytes: no padding is added before decoding.
B64urlToBytesNoPad(s) == A2bBase64(s)

\* libs.odin.crypto.b64url_to_bytes: [ok, bytes] or [ok = FALSE, err].
b64url_to_bytes(s) ==
    A2bBase64(s \o Pad((4 - (Len(s) % 4)) % 4))

\* The printable ASCII characters, code points 32..126 in order.  The three
\* that cannot stand in a string of this notation are named instead.
Ascii ==
    <<
       " ","!","(quote)","#","$","%","&","'","(",")","*","+",",","-",".","/",
       "0","1","2","3","4","5","6","7","8","9",":",";","<","=",">","?",
       "@","A","B","C","D","E","F","G","H","I","J","K","L","M","N","O",
       "P","Q","R","S","T","U","V","W","X","Y","Z","[","(backslash)","]","^","_",
       "(backtick)","a","b","c","d","e","f","g","h","i","j","k","l","m","n","o",
       "p","q","r","s","t","u","v","w","x","y","z","{","|","}","~" >>

\* ord(c) of a printable ASCII character or of the line feed.
Ord(c) == IF c = "\n" THEN 10 ELSE 31 + IndexOf(Ascii, c)

\* str.encode("utf-8") on ASCII text: one byte per character, its code point.
EncodeUtf8(s) == [i \in 1..Len(s) |-> Ord(s[i])]

\* bytes.decode() on ASCII bytes.
DecodeAscii(b) == [i \in 1..Len(b) |-> Ascii[b[i] - 31]]

\* ------------------------------------------------------------ primitives
\* PyNaCl's Ed25519 and hashlib's SHA-256 are outside the repository.  They
\* are modelled by their contract: argument lengths are checked as the
\* library checks them, a signature is a function of the key and the message,
\* and verification recomputes it.  The digests below are stand-ins that are
\* collision free on the messages of the model.

\* crypto_sign_SEEDBYTES = crypto_sign_PUBLICKEYBYTES (libsodium).
KeyLen == 32

\* crypto_sign_BYTES (libsodium): a signature is R || S.
SigLen == 2 * KeyLen

RECURSIVE LaneSum(_, _, _)
\* The weighted sum of the bytes of m at positions j, j + 31, j + 62, ...
LaneSum(m, j, w) ==
    IF j > Len(m) THEN 0
    ELSE (m[j] * w + LaneSum(m, j + (KeyLen - 1), w + 1)) % 256

\* A 32-byte digest: 31 lanes of folded data, then the length.
Digest(m) ==
    [i \in 1..KeyLen |->
        IF i < KeyLen THEN LaneSum(m, i, 1) ELSE Len(m) % 256]

\* The public key of a 32-byte seed.
PubOf(seed) == [i \in 1..KeyLen |-> (seed[i] * 7 + i) % 256]

\* The one valid signature of message m under public key pub.
SignatureOf(pub, m) == Digest(pub \o m) \o Digest(m)

\* nacl.signing.SigningKey(seed).sign(m).signature; a seed that is not 32
\* bytes raises nacl.exceptions.ValueError.
NaclSign(seed, m) ==
    IF Len(seed) # KeyLen THEN [ok |-> FALSE, err |-> "ValueError"]
    ELSE [ok |-> TRUE, bytes |-> SignatureOf(PubOf(seed), m)]

\* nacl.signing.VerifyKey(pub).verify(m, sig): "ok" when the signature
\* verifies, else the exception raised.  A key that is not 32 bytes or a
\* signature that is not 64 bytes raises nacl.exceptions.ValueError, a
\* signature that does not verify raises BadSignatureError.
NaclVerify(pub, m, sig) ==
    IF Len(pub) # KeyLen THEN "ValueError"
    ELSE IF Len(sig) # SigLen THEN "ValueError"
    ELSE IF sig = SignatureOf(pub, m) THEN "ok"
    ELSE "BadSignatureError"

\* libs.odin.crypto.sign_ed25519
sign_ed25519(privkey, message) == NaclSign(privkey, message)

\* A mutant of verify_ed25519: the signature is compared with the message
\* left out.
VerifyEd25519IgnoresMessage(pubkey, message, signature) ==
    LET r == NaclVerify(pubkey, << >>, signature)
    IN  IF r = "ValueError" THEN [ok |-> FALSE, err |-> r]
        ELSE [ok |-> TRUE, value |-> TRUE]

\* libs.odin.crypto.verify_ed25519: [ok, value] for a returned bool, or
\* [ok = FALSE, err] for an exception that leaves the function.  Only
\* BadSignatureError is caught.
verify_ed25519(pubkey, message, signature) ==
    LET r == NaclVerify(pubkey, message, signature)
    IN  IF r = "ok" THEN [ok |-> TRUE, value |-> TRUE]
        ELSE IF r = "BadSignatureError" THEN [ok |-> TRUE, value |-> FALSE]
        ELSE [ok |-> FALSE, err |-> r]

\* ------------------------------------------------------------------ state

VARIABLES
    store,      \* STORAGE._s: key (text) -> stored bytes
    active,     \* (_PRIV, _PUB, _KID), the key triple loaded at import
    max_body,   \* MAX_BODY, read from the environment at import
    now,        \* the wall clock in ms (offset from an origin, see hop_id)
    started,    \* how many /v1/envelope requests have been received
    reqs,       \* the /v1/envelope requests being handled (handler locals)
    resp,       \* the last response sent by the gateway
    issued,     \* history: per trace, the hop ids generated, in order
    answered,   \* history: per trace, the hop ids answered 201, in order
    env,        \* the Envelope under verification
    made,       \* history: the bytes the Envelope was built from
    verdict,    \* the outcome of the last verify_envelope call
    config,     \* the configuration load_active_key was called under
    loaded,     \* the outcome of that load_active_key call
    puts,       \* history: the put_bytes calls on a storage driver, in order
    outcome     \* the outcome of the last get_bytes or exists call on it

vars == << store, active, max_body, now, started, reqs, resp, issued,
           answered, env, made, verdict, config, loaded, puts, outcome >>

gatewayVars == << store, active, max_body, now, started, reqs, resp, issued,
                  answered >>

envelopeVars == << env, made, verdict >>

keyVars == << config, loaded >>

storageVars == << puts, outcome >>

\* The value of a variable that holds nothing yet.
None == [none |-> TRUE]

\* ----------------------------------------------------- envelope verifier

\* Envelope.create: the three fields are unpadded base64url text.
EnvelopeCreate(sender_pub, payload, signature) ==
    [ sender_pub |-> b64url_no_pad(sender_pub),
      payload    |-> b64url_no_pad(payload),
      signature  |-> b64url_no_pad(signature) ]

\* Envelope.payload_bytes
payload_bytes(e) == b64url_to_bytes(e.payload)

\* Envelope.sender_pubkey_bytes
sender_pubkey_bytes(e) == b64url_to_bytes(e.sender_pub)

\* Envelope.signature_bytes
signature_bytes(e) == b64url_to_bytes(e.signature)

\* services.gateway.envelope.verify_envelope: [ok, value] for a returned
\* bool, [ok = FALSE, err] for an exception.  The three decodings run first,
\* in this order, and none of their exceptions is caught.
verify_envelope(e) ==
    LET payload == payload_bytes(e)
        pubkey  == sender_pubkey_bytes(e)
        sig     == signature_bytes(e)
    IN  IF ~payload.ok THEN [ok |-> FALSE, err |-> payload.err]
        ELSE IF ~pubkey.ok THEN [ok |-> FALSE, err |-> pubkey.err]
        ELSE IF ~sig.ok THEN [ok |-> FALSE, err |-> sig.err]
        ELSE verify_ed25519(pubkey.bytes, payload.bytes, sig.bytes)

\* The seeds key generation draws from (generate_keypair).
Seeds == { [i \in 1..KeyLen |-> 1], [i \in 1..KeyLen |-> 200 - i] }

\* The seed SigningKey.generate() draws at start-up.
GeneratedSeeds == { [i \in 1..KeyLen |-> 200 - i] }

\* b"hello-odin", b"bye" (the test's payloads) and the empty payload.
Payloads ==
    { << 104, 101, 108, 108, 111, 45, 111, 100, 105, 110 >>,
      << 98, 121, 101 >>,
      << >> }

\* Byte strings a signature is replaced by: signatures of other payloads and
\* keys, the signature with its last bit flipped, cut by one byte, extended
\* by one byte, and the empty signature.
OtherSignatures(sig) ==
    ( { SignatureOf(PubOf(k), p) : k \in Seeds, p \in Payloads }
      \cup { [sig EXCEPT ![SigLen] = IF @ % 2 = 0 THEN @ + 1 ELSE @ - 1],
             SubSeq(sig, 1, SigLen - 1),
             Append(sig, 0),
             << >> } ) \ {sig}

\* Texts a field of an Envelope may hold besides well-formed ones: one
\* character (no base64 quad), a character outside the alphabet, a short key.
OddTexts == { << "a" >>, << "a", "!", "b" >>, << "Q", "U", "I" >>, << >> }

\* sk, pk = generate_keypair(); sig = sign_ed25519(sk, payload);
\* env = Envelope.create(pk, payload, sig)
BuildEnvelope ==
    /\ env = None
    /\ \E sk \in Seeds, payload \in Payloads :
         LET pk  == PubOf(sk)
             sig == sign_ed25519(sk, payload).bytes
         IN  /\ env' = EnvelopeCreate(pk, payload, sig)
             /\ made' = [pub |-> pk, payload |-> payload, sig |-> sig,
                         changed |-> "nothing"]
    /\ verdict' = None
    /\ UNCHANGED << gatewayVars, keyVars, storageVars >>

\* Envelope.create(pk, other payload, sig): the payload is replaced.
ReplacePayload ==
    /\ env # None /\ made.changed = "nothing" /\ verdict = None
    /\ \E p \in Payloads \ {made.payload} :
         /\ env' = EnvelopeCreate(made.pub, p, made.sig)
         /\ made' = [made EXCEPT !.changed = "payload"]
    /\ UNCHANGED << verdict, gatewayVars, keyVars, storageVars >>

\* Envelope.create(pk, payload, other signature): the signature is replaced.
ReplaceSignature ==
    /\ env # None /\ made.changed = "nothing" /\ verdict = None
    /\ \E s \in OtherSignatures(made.sig) :
         /\ env' = EnvelopeCreate(made.pub, made.payload, s)
         /\ made' = [made EXCEPT !.changed = "signature"]
    /\ UNCHANGED << verdict, gatewayVars, keyVars, storageVars >>

\* Envelope(sender_pub=..., payload=..., signature=...): a field is set to
\* arbitrary text, as a peer that sends the envelope may.
SetField ==
    /\ env # None /\ made.changed = "nothing" /\ verdict = None
    /\ \E f \in {"sender_pub", "payload", "signature"}, t \in OddTexts :
         /\ env' = [env EXCEPT ![f] = t]
         /\ made' = [made EXCEPT !.changed = f]
    /\ UNCHANGED << verdict, gatewayVars, keyVars, storageVars >>

\* verify_envelope(env)
Verify ==
    /\ env # None /\ verdict = None
    /\ verdict' = verify_envelope(env)
    /\ UNCHANGED << env, made, gatewayVars, keyVars, storageVars >>

\* The next envelope is taken up.
Discard ==
    /\ verdict # None
    /\ env' = None /\ made' = None /\ verdict' = None
    /\ UNCHANGED << gatewayVars, keyVars, storageVars >>

\* ------------------------------------------------- text of the gateway

Digits == << "0", "1", "2", "3", "4", "5", "6", "7", "8", "9" >>

RECURSIVE DecimalText(_)
\* str(n) of a natural number.
DecimalText(n) ==
    IF n < 10 THEN << Digits[n + 1] >>
    ELSE Append(DecimalText(n \div 10), Digits[(n % 10) + 1])

RECURSIVE DecimalValue(_, _)
\* int(s) of decimal text, acc the value of the digits read so far; -1 when
\* a character is no digit (int raises ValueError).
DecimalValue(s, acc) ==
    IF Len(s) = 0 THEN acc
    ELSE LET d == IndexOf(Digits, s[1])
         IN  IF d = 0 THEN -1
             ELSE DecimalValue(SubSeq(s, 2, Len(s)), acc * 10 + (d - 1))

\* s[-n:]
LastChars(s, n) == SubSeq(s, IF Len(s) > n THEN Len(s) - n + 1 ELSE 1, Len(s))

\* Whether text t occurs in s at position i.
OccursAt(s, t, i) ==
    /\ i >= 1 /\ i + Len(t) - 1 <= Len(s)
    /\ SubSeq(s, i, i + Len(t) - 1) = t

\* A mutant of key_receipt: the hop id is left out of the key.
KeyReceiptWithoutHop(trace_id, hop_id) ==
    << "r", "e", "c", "e", "i", "p", "t", "s", "/" >> \o trace_id
        \o << "/", "h", "o", "p", "s", "/" >> \o << ".", "j", "s", "o", "n" >>

\* app.key_receipt: f"receipts/{trace_id}/hops/{hop_id}.json"
key_receipt(trace_id, hop_id) ==
    << "r", "e", "c", "e", "i", "p", "t", "s", "/" >> \o trace_id
        \o << "/", "h", "o", "p", "s", "/" >> \o hop_id
        \o << ".", "j", "s", "o", "n" >>

\* A mutant of key_receipt_index: one index key for every trace.
KeyReceiptIndexShared(trace_id) ==
    << "r", "e", "c", "e", "i", "p", "t", "s", "/", "i", "n", "d", "e", "x",
       ".", "j", "s", "o", "n" >>

\* app.key_receipt_index: f"receipts/{trace_id}/index.json"
key_receipt_index(trace_id) ==
    << "r", "e", "c", "e", "i", "p", "t", "s", "/" >> \o trace_id
        \o << "/", "i", "n", "d", "e", "x", ".", "j", "s", "o", "n" >>

\* A request body: the bytes `head` followed by `fill` spaces (0x20), so
\* that a body of 65537 bytes is written in a few.
BodyLen(raw) == Len(raw.head) + raw.fill

\* hashlib.sha256(data).digest() of a request body (a stand-in, see above).
Sha256(raw) ==
    Digest(<< raw.fill % 256, (raw.fill \div 256) % 256, raw.fill \div 65536 >>
           \o raw.head)

\* libs.odin.crypto.cid_v0
cid_v0(raw) == << "s", "h", "a", "2", "5", "6", ":" >> \o b64url_no_pad(Sha256(raw))

\* json.dumps(v).encode("utf-8"): the document v as stored bytes.
JsonDumps(v) == [json |-> v]

\* json.loads(b.decode("utf-8")) of stored bytes.
JsonLoads(b) == b.json

\* b"{}" and b"{x": the JSON documents among the request bodies are "{}"
\* followed by any number of spaces.
JsonHead == << 123, 125 >>
BadJsonHead == << 123, 120 >>

\* Whether json.loads(raw.decode("utf-8")) succeeds.
IsJson(raw) == raw.head = JsonHead

\* ------------------------------------------------------------ key loader

\* os.getenv(name): an unset variable (None) or its text.
Unset == [set |-> FALSE, v |-> << >>]
Set(t) == [set |-> TRUE, v |-> t]

\* Python truth of an Optional[str]: set and not empty.
Truthy(x) == x.set /\ Len(x.v) > 0

RECURSIVE Strip(_)
\* str.strip() on text whose only white space is the space character.
Strip(s) ==
    IF Len(s) > 0 /\ s[1] = " " THEN Strip(SubSeq(s, 2, Len(s)))
    ELSE IF Len(s) > 0 /\ s[Len(s)] = " " THEN Strip(SubSeq(s, 1, Len(s) - 1))
    ELSE s

\* jwks_loader._b64_to_bytes: standard or URL-safe base64, padding optional.
b64_to_bytes(s) ==
    LET t == Strip(s)
    IN  A2bBase64(t \o Pad((4 - (Len(t) % 4)) % 4))

\* jwks_loader._pub_from_priv: both libraries refuse a seed that is not 32
\* bytes, which ends in RuntimeError.
pub_from_priv(priv_bytes) ==
    IF Len(priv_bytes) = KeyLen THEN [ok |-> TRUE, bytes |-> PubOf(priv_bytes)]
    ELSE [ok |-> FALSE, err |-> "RuntimeError"]

\* f"{month:02d}"
TwoDigits(n) == IF n < 10 THEN << "0" >> \o DecimalText(n) ELSE DecimalText(n)

\* jwks_loader._default_kid, today the UTC date of the call.
default_kid(today) ==
    << "g", "w", "-" >> \o DecimalText(today.year) \o << "-" >>
        \o TwoDigits(today.month)

\* jwks_loader.jwk_from_pub
jwk_from_pub(pub, kid) ==
    [kty |-> "OKP", crv |-> "Ed25519", kid |-> kid, x |-> b64url_no_pad(pub)]

\* `kid or _default_kid()`: the configured key id, else the synthesized one.
KidOf(e, today) ==
    IF Truthy(e.ODIN_KID) THEN e.ODIN_KID.v ELSE default_kid(today)

\* The PKCS#8 DER frame of an Ed25519 private key: these 16 bytes, then the
\* 32-byte seed.
DerPrefix == << 48, 46, 2, 1, 0, 48, 5, 6, 3, 43, 101, 112, 4, 34, 4, 32 >>

PemHeader ==
    << "-", "-", "-", "-", "-", "B", "E", "G", "I", "N", " ", "P", "R",
       "I", "V", "A", "T", "E", " ", "K", "E", "Y", "-", "-", "-", "-",
       "-", "\n" >>

PemFooter ==
    << "\n", "-", "-", "-", "-", "-", "E", "N", "D", " ", "P", "R",
       "I", "V", "A", "T", "E", " ", "K", "E", "Y", "-", "-", "-", "-",
       "-", "\n" >>

\* base64.b64encode: the standard alphabet, padded.
StdB64Encode(b) ==
    LET u == UrlsafeB64Encode(b)
    IN  [j \in 1..Len(u) |-> FromUrlSafe(u[j])]

\* The PEM text of the PKCS#8 private key with this seed.
PemTextOf(seed) ==
    PemHeader \o StdB64Encode(DerPrefix \o seed) \o PemFooter

\* The seeds whose PEM text appears in the deployments of the model.
PemSeeds == { [i \in 1..KeyLen |-> 2], [i \in 1..KeyLen |-> 3] }

\* The PEM file of each of these seeds, as bytes.
PemBytes == [seed \in PemSeeds |-> EncodeUtf8(PemTextOf(seed))]

\* cryptography's serialization.load_pem_private_key followed by
\* private_bytes(Raw, Raw, NoEncryption), lines 58-64, by its contract: the
\* seed whose PEM text the bytes are, else ValueError.
load_pem_private_key(pem) ==
    IF \E seed \in PemSeeds : pem = PemBytes[seed]
    THEN [ok |-> TRUE, raw |-> CHOOSE seed \in PemSeeds : pem = PemBytes[seed]]
    ELSE [ok |-> FALSE, err |-> "ValueError"]

\* `return raw, _pub_from_priv(raw)`
KeyPairOf(raw) ==
    LET pub == pub_from_priv(raw)
    IN  IF pub.ok THEN [ok |-> TRUE, priv |-> raw, pub |-> pub.bytes]
        ELSE [ok |-> FALSE, err |-> pub.err]

\* jwks_loader.load_ed25519_from_pem in deployment e: 32 bytes are the seed;
\* else the PEM parse where cryptography is installed; else the last 32
\* bytes (all of them when there are fewer).
load_ed25519_from_pem(e, pem) ==
    IF Len(pem) = KeyLen THEN KeyPairOf(pem)
    ELSE LET parsed == IF e.cryptography THEN load_pem_private_key(pem)
                       ELSE [ok |-> FALSE, err |-> "not installed"]
         IN  IF parsed.ok THEN KeyPairOf(parsed.raw)
             ELSE KeyPairOf(LastChars(pem, KeyLen))

\* Whether text t occurs in text s.
Contains(s, t) == \E i \in 1..Len(s) : OccursAt(s, t, i)

\* jwks_loader.load_priv_from_gcp_secret_resource: every exception is
\* caught and turned into None.
load_priv_from_gcp_secret_resource(e, resource_name, today) ==
    IF ~e.secretmanager THEN [ok |-> TRUE, found |-> FALSE]
    ELSE IF ~e.secret_reply.ok THEN [ok |-> TRUE, found |-> FALSE]
    ELSE LET k == load_ed25519_from_pem(e, e.secret_reply.data)
         IN  IF ~k.ok THEN [ok |-> TRUE, found |-> FALSE]
             ELSE [ok |-> TRUE, found |-> TRUE,
                   key |-> [priv |-> k.priv, pub |-> k.pub,
                            kid |-> KidOf(e, today)]]

\* jwks_loader.load_priv_from_env.  [ok, found, key] or [ok = FALSE, err],
\* with the sources it consulted, in order.
load_priv_from_env(e, today) ==
    IF Truthy(e.ODIN_ED25519_PRIV_B64) THEN
        LET raw == b64_to_bytes(e.ODIN_ED25519_PRIV_B64.v)
            consulted == << "ODIN_ED25519_PRIV_B64" >>
        IN  IF ~raw.ok
            THEN [ok |-> FALSE, err |-> raw.err, consulted |-> consulted]
            ELSE LET pub == pub_from_priv(raw.bytes)
                 IN  IF ~pub.ok
                     THEN [ok |-> FALSE, err |-> pub.err,
                           consulted |-> consulted]
                     ELSE [ok |-> TRUE, found |-> TRUE,
                           key |-> [priv |-> raw.bytes, pub |-> pub.bytes,
                                    kid |-> KidOf(e, today)],
                           consulted |-> consulted]
    ELSE LET consulted == << "ODIN_ED25519_PRIV_B64", "ODIN_JWKS_PRIV" >>
         IN  IF ~Truthy(e.ODIN_JWKS_PRIV)
             THEN [ok |-> TRUE, found |-> FALSE, consulted |-> consulted]
             ELSE LET jwks_priv == e.ODIN_JWKS_PRIV.v
                  IN  IF /\ OccursAt(jwks_priv,
                                     << "p", "r", "o", "j", "e", "c",
                                        "t", "s", "/" >>, 1)
                         /\ Contains(jwks_priv,
                                     << "/", "s", "e", "c", "r", "e",
                                        "t", "s", "/" >>)
                      THEN load_priv_from_gcp_secret_resource(e, jwks_priv,
                                                              today)
                               @@ [consulted |-> consulted]
                      ELSE LET k == load_ed25519_from_pem(
                                        e, EncodeUtf8(jwks_priv))
                           IN  IF ~k.ok
                               THEN [ok |-> FALSE, err |-> k.err,
                                     consulted |-> consulted]
                               ELSE [ok |-> TRUE, found |-> TRUE,
                                     key |-> [priv |-> k.priv,
                                              pub |-> k.pub,
                                              kid |-> KidOf(e, today)],
                                     consulted |-> consulted]

\* jwks_loader.load_priv_from_gcp_secret: None without the client library,
\* the secret id or a project; else the secret's latest version, where a
\* failing lookup or an unusable secret raises.
load_priv_from_gcp_secret(e, today) ==
    LET project == IF Truthy(e.ODIN_GCP_PROJECT) THEN e.ODIN_GCP_PROJECT
                   ELSE e.GOOGLE_CLOUD_PROJECT
        consulted == << "secret store" >>
    IN  IF ~e.secretmanager
        THEN [ok |-> TRUE, found |-> FALSE, consulted |-> consulted]
        ELSE IF ~Truthy(e.ODIN_GCP_SECRET_ID) \/ ~Truthy(project)
        THEN [ok |-> TRUE, found |-> FALSE, consulted |-> consulted]
        ELSE IF ~e.secret_reply.ok
        THEN [ok |-> FALSE, err |-> e.secret_reply.err,
              consulted |-> consulted]
        ELSE LET k == load_ed25519_from_pem(e, e.secret_reply.data)
             IN  IF ~k.ok
                 THEN [ok |-> FALSE, err |-> k.err, consulted |-> consulted]
                 ELSE [ok |-> TRUE, found |-> TRUE,
                       key |-> [priv |-> k.priv, pub |-> k.pub,
                                kid |-> KidOf(e, today)],
                       consulted |-> consulted]

\* A mutant of load_active_key: the secret store is asked before the
\* environment.
LoadActiveKeySecretFirst(e, generated, today) ==
    LET w == load_priv_from_gcp_secret(e, today)
    IN  IF ~w.ok \/ w.found THEN w
        ELSE LET v == load_priv_from_env(e, today)
                 after == w.consulted \o v.consulted
             IN  IF ~v.ok \/ v.found THEN [v EXCEPT !.consulted = after]
                 ELSE [ok |-> TRUE, found |-> TRUE,
                       key |-> [priv |-> generated, pub |-> PubOf(generated),
                                kid |-> default_kid(today)],
                       consulted |-> Append(after, "ephemeral")]

\* jwks_loader.load_active_key in deployment e, `generated` the seed
\* SigningKey.generate() draws if it comes to that.  [ok, key] or
\* [ok = FALSE, err], with the sources consulted, in order.
load_active_key(e, generated, today) ==
    LET v == load_priv_from_env(e, today)
    IN  IF ~v.ok \/ v.found THEN v
        ELSE LET w == load_priv_from_gcp_secret(e, today)
                 after == v.consulted \o w.consulted
             IN  IF ~w.ok \/ w.found THEN [w EXCEPT !.consulted = after]
                 ELSE [ok |-> TRUE, found |-> TRUE,
                       key |-> [priv |-> generated, pub |-> PubOf(generated),
                                kid |-> default_kid(today)],
                       consulted |-> Append(after, "ephemeral")]

\* jwks_loader.sign_bytes
sign_bytes(priv, payload) == NaclSign(priv, payload)

\* A deployment with nothing configured: no variable set, cryptography
\* installed, the Secret Manager client not installed.
BareDeployment ==
    [ ODIN_KID |-> Unset, ODIN_ED25519_PRIV_B64 |-> Unset,
      ODIN_JWKS_PRIV |-> Unset, ODIN_GCP_SECRET_ID |-> Unset,
      ODIN_GCP_PROJECT |-> Unset, GOOGLE_CLOUD_PROJECT |-> Unset,
      ODIN_MAX_BODY_BYTES |-> Unset,
      cryptography |-> TRUE, secretmanager |-> FALSE,
      secret_reply |-> [ok |-> FALSE, err |-> "NotFound"] ]

\* The deployments the gateway runs in: nothing configured, and a
\* configured key id, seed and body limit.
Environments ==
    { BareDeployment,
      [ BareDeployment EXCEPT
          !.ODIN_KID = Set(<< "k", "1" >>),
          !.ODIN_ED25519_PRIV_B64 =
              Set(b64url_no_pad([i \in 1..KeyLen |-> 1])),
          !.ODIN_MAX_BODY_BYTES = Set(<< "3" >>) ] }

\* The UTC dates of start-up.
Dates == { [year |-> 2025, month |-> 8] }

\* int(os.getenv("ODIN_MAX_BODY_BYTES", "65536"))
MaxBodyOf(e) ==
    DecimalValue(IF e.ODIN_MAX_BODY_BYTES.set THEN e.ODIN_MAX_BODY_BYTES.v
                 ELSE << "6", "5", "5", "3", "6" >>, 0)

\* ---------------------------------------------------------------- gateway

\* How many admitted /v1/envelope requests a run holds.
MaxRequests == 2

\* How many /v1/envelope requests are handled at the same time.
MaxInFlight == 2

\* str(...)[-6:]: the characters of a hop id.
HopDigits == 6

\* The clock is kept as an offset from 1762000 * 10^6 ms after the epoch (in
\* November 2025), which leaves the decimal text of the time unchanged.
ClockOriginHigh == 1762000
ClockSplit == 1000000

\* The instants the clock shows: two neighbouring milliseconds, and the same
\* two 10^6 ms later.
Instants == { 0, 1, ClockSplit, ClockSplit + 1 }

RECURSIVE ZeroPad(_, _)
ZeroPad(s, n) == IF Len(s) >= n THEN s ELSE ZeroPad(<< "0" >> \o s, n)

\* str(int(time.time() * 1000)) at clock offset t.
MsText(t) ==
    DecimalText(ClockOriginHigh + (t \div ClockSplit))
        \o ZeroPad(DecimalText(t % ClockSplit), 6)

\* The hop id generated at clock offset t (app.envelope, line 197).
HopIdAt(t) == LastChars(MsText(t), HopDigits)

\* time.strftime("%Y-%m-%dT%H:%M:%SZ", time.gmtime()) at clock offset t, kept
\* as the count of seconds since the epoch that it renders.
TsAt(t) == ClockOriginHigh * 1000 + (t \div 1000)

Traces == { << "t", "1" >>, << "t", "2" >> }

\* The request bodies: nothing, "{x", and "{}" followed by spaces up to the
\* limit and one past it.
Bodies ==
    { [head |-> << >>, fill |-> 0], [head |-> BadJsonHead, fill |-> 0] }
    \cup { [head |-> JsonHead, fill |-> f] :
             f \in { 0, max_body - 2, max_body - 1 } \cap Nat }

\* Values of X-ODIN-Payload-CID: the content address of the body "{}", and
\* one that is the address of no body of the model.
Cids == { cid_v0([head |-> JsonHead, fill |-> 0]),
          << "s", "h", "a", "2", "5", "6", ":", "A", "A", "A", "A" >> }

\* The headers of a request: each of the two either absent or present.
HeaderSets ==
    [ trace : { Unset } \cup { Set(t) : t \in Traces },
      cid   : { Unset } \cup { Set(c) : c \in Cids } ]

\* Header text with the separators of the signing input and of the storage
\* keys in it: trace ids "a", "a.b" and "a/hops", payload CIDs "c" and
\* "b.c".  request.headers.get returns whatever text the client sent.
AnyTraces ==
    { << "a" >>, << "a", ".", "b" >>, << "a", "/", "h", "o", "p", "s" >> }
AnyCids == { << "c" >>, << "b", ".", "c" >> }

\* The headers of the requests that carry such text: both present.
AnyHeaders ==
    [ trace : { Set(t) : t \in AnyTraces }, cid : { Set(c) : c \in AnyCids } ]

\* Every trace id of the model.
TraceIds == Traces \cup AnyTraces

\* The headers of the /echo requests: none, or both.
EchoHeaders == { h \in HeaderSets : h.trace.set = h.cid.set }

\* The requests of the runs that follow receipts through storage: any trace
\* id or none, a payload CID, and the bodies "{}" and "{x".
ChainHeaders == { h \in HeaderSets : h.cid.set }
ChainBodies == { raw \in Bodies : raw.fill = 0 /\ Len(raw.head) > 0 }

\* The requests of the runs that exercise the policy gate: one trace id and
\* one payload CID, each present or absent, with every body.
GateHeaders ==
    { h \in HeaderSets :
        /\ h.trace.set => h.trace.v = << "t", "1" >>
        /\ h.cid.set => h.cid.v = cid_v0([head |-> JsonHead, fill |-> 0]) }

\* An HTTP response, with the path, the headers and the body length of the
\* request it answers for reference.
Response(path, headers, n, status, detail, body) ==
    [path |-> path, headers |-> headers, len |-> n, status |-> status,
     detail |-> detail, body |-> body]

\* A mutant of enforce_hel: a body of exactly MAX_BODY bytes is refused.
EnforceHelStrict(path, headers, raw) ==
    IF path # "/echo" /\ ~headers.trace.set
    THEN [status |-> 400, detail |-> "missing header X-ODIN-Trace-Id"]
    ELSE IF path # "/echo" /\ ~headers.cid.set
    THEN [status |-> 400, detail |-> "missing header X-ODIN-Payload-CID"]
    ELSE IF BodyLen(raw) >= max_body
    THEN [status |-> 413, detail |-> "payload too large"]
    ELSE [status |-> 0, detail |-> "ok"]

\* A mutant of enforce_hel: only the first required header is looked for.
EnforceHelTraceOnly(path, headers, raw) ==
    IF path # "/echo" /\ ~headers.trace.set
    THEN [status |-> 400, detail |-> "missing header X-ODIN-Trace-Id"]
    ELSE IF BodyLen(raw) > max_body
    THEN [status |-> 413, detail |-> "payload too large"]
    ELSE [status |-> 0, detail |-> "ok"]

\* app.enforce_hel: the HTTPException raised, or status 0 when it returns.
enforce_hel(path, headers, raw) ==
    IF path # "/echo" /\ ~headers.trace.set
    THEN [status |-> 400, detail |-> "missing header X-ODIN-Trace-Id"]
    ELSE IF path # "/echo" /\ ~headers.cid.set
    THEN [status |-> 400, detail |-> "missing header X-ODIN-Payload-CID"]
    ELSE IF BodyLen(raw) > max_body
    THEN [status |-> 413, detail |-> "payload too large"]
    ELSE [status |-> 0, detail |-> "ok"]

\* hel.MAX_PAYLOAD_BYTES
MAX_PAYLOAD_BYTES == 64 * 1024

\* hel.check_payload_size
check_payload_size(size) ==
    IF size <= MAX_PAYLOAD_BYTES THEN << TRUE, "ok" >>
    ELSE << FALSE, << "payload too large: " >> \o DecimalText(size)
                   \o << " > " >> \o DecimalText(MAX_PAYLOAD_BYTES) >>

\* hel.check_required_headers on the two headers of the model.
check_required_headers(headers) ==
    IF ~headers.trace.set
    THEN << FALSE, "missing required header: X-ODIN-Trace-Id" >>
    ELSE IF ~headers.cid.set
    THEN << FALSE, "missing required header: X-ODIN-Payload-CID" >>
    ELSE << TRUE, "ok" >>

\* A mutant of BuildReceipt: the receipt carries the key id "local".
BuildReceiptOtherKid(trace_id, payload_cid, t) ==
    [ trace_id    |-> trace_id,
      hop_id      |-> HopIdAt(t),
      payload_cid |-> payload_cid,
      policy      |-> [verdict |-> "allow",
                       rules |-> << "required-headers",
                                    << "size<=", max_body >> >>],
      ts          |-> TsAt(t),
      signature   |->
          [kid |-> << "l", "o", "c", "a", "l" >>, alg |-> "EdDSA",
           sig |-> b64url_no_pad(
                      sign_bytes(active.priv,
                                 EncodeUtf8(trace_id \o << "." >> \o payload_cid)
                                ).bytes)] ]

\* app.envelope, lines 197-209: the receipt built at clock offset t.
BuildReceipt(trace_id, payload_cid, t) ==
    [ trace_id    |-> trace_id,
      hop_id      |-> HopIdAt(t),
      payload_cid |-> payload_cid,
      policy      |-> [verdict |-> "allow",
                       rules |-> << "required-headers",
                                    << "size<=", max_body >> >>],
      ts          |-> TsAt(t),
      signature   |->
          [kid |-> active.kid, alg |-> "EdDSA",
           sig |-> b64url_no_pad(
                      sign_bytes(active.priv,
                                 EncodeUtf8(trace_id \o << "." >> \o payload_cid)
                                ).bytes)] ]

\* A mutant of put_bytes: a key already stored keeps its bytes.
PutBytesKeepsFirst(s, k, b) == s @@ (k :> b)

\* STORAGE.put_bytes(k, b)
put_bytes(s, k, b) == (k :> b) @@ s

\* STORAGE.exists(k)
exists(s, k) == k \in DOMAIN s

\* STORAGE.get_bytes(k): the bytes, or FileNotFoundError.
get_bytes(s, k) ==
    IF k \in DOMAIN s THEN [ok |-> TRUE, bytes |-> s[k]]
    ELSE [ok |-> FALSE, err |-> "FileNotFoundError"]

\* The least request slot that is free.
FreeSlot == CHOOSE i \in 1..MaxInFlight :
                /\ \A r \in reqs : r.id # i
                /\ \A j \in 1..(i - 1) : \E r \in reqs : r.id = j

\* POST /v1/envelope, lines 187-209: the policy gate, the JSON parse and the
\* receipt.  A refused request is answered at once; an admitted one goes on
\* to storage with its receipt built from the clock as it stands.
Envelope(headers, raw) ==
    LET gate == enforce_hel("/v1/envelope", headers, raw)
        n    == BodyLen(raw)
    IN  /\ resp = None
        /\ \/ /\ gate.status # 0
              /\ resp' = Response("/v1/envelope", headers, n, gate.status,
                                  gate.detail, None)
              /\ UNCHANGED << store, active, max_body, now, started, reqs,
                              issued, answered, envelopeVars, keyVars,
                    storageVars >>
           \/ /\ gate.status = 0
              /\ n > 0 /\ ~IsJson(raw)
              /\ resp' = Response("/v1/envelope", headers, n, 400,
                                  "invalid JSON payload", None)
              /\ UNCHANGED << store, active, max_body, now, started, reqs,
                              issued, answered, envelopeVars, keyVars,
                    storageVars >>
           \/ /\ gate.status = 0
              /\ n = 0 \/ IsJson(raw)
              /\ started < MaxRequests
              /\ Cardinality(reqs) < MaxInFlight
              /\ LET trace_id == headers.trace.v
                     receipt  == BuildReceipt(trace_id, headers.cid.v, now)
                 IN  /\ reqs' = reqs \cup
                           { [ id       |-> FreeSlot,
                               pc       |-> "put_receipt",
                               headers  |-> headers,
                               trace_id |-> trace_id,
                               hop_id   |-> receipt.hop_id,
                               receipt  |-> receipt,
                               len      |-> n,
                               body_cid |-> cid_v0(raw),
                               index    |-> << >> ] }
                     /\ issued' = [issued EXCEPT
                                      ![trace_id] = Append(@, receipt.hop_id)]
              /\ started' = started + 1
              /\ UNCHANGED << store, active, max_body, now, resp, answered,
                              envelopeVars, keyVars,
                    storageVars >>

\* A mutant of PutReceipt: the receipt is not written.
PutReceiptSkipped(r) ==
    /\ resp = None
    /\ r \in reqs /\ r.pc = "put_receipt"
    /\ reqs' = (reqs \ {r}) \cup { [r EXCEPT !.pc = "exists"] }
    /\ UNCHANGED << store, active, max_body, now, started, resp, issued,
                    answered, envelopeVars, keyVars,
                    storageVars >>

\* Line 212: STORAGE.put_bytes(key_receipt(trace_id, hop_id), receipt JSON)
PutReceipt(r) ==
    /\ resp = None
    /\ r \in reqs /\ r.pc = "put_receipt"
    /\ store' = put_bytes(store, key_receipt(r.trace_id, r.hop_id),
                          JsonDumps(r.receipt))
    /\ reqs' = (reqs \ {r}) \cup { [r EXCEPT !.pc = "exists"] }
    /\ UNCHANGED << active, max_body, now, started, resp, issued, answered,
                    envelopeVars, keyVars,
                    storageVars >>

\* Lines 213-215: index = []; STORAGE.exists(idx_key)
ExistsIndex(r) ==
    /\ resp = None
    /\ r \in reqs /\ r.pc = "exists"
    /\ reqs' = (reqs \ {r}) \cup
          { [r EXCEPT !.pc = IF exists(store, key_receipt_index(r.trace_id))
                             THEN "get_index" ELSE "put_index",
                      !.index = << >>] }
    /\ UNCHANGED << store, active, max_body, now, started, resp, issued,
                    answered, envelopeVars, keyVars,
                    storageVars >>

\* Line 216: index = json.loads(STORAGE.get_bytes(idx_key)); a missing key
\* raises FileNotFoundError, which ends the request with status 500.
GetIndex(r) ==
    /\ resp = None
    /\ r \in reqs /\ r.pc = "get_index"
    /\ LET got == get_bytes(store, key_receipt_index(r.trace_id))
       IN  IF got.ok
           THEN /\ reqs' = (reqs \ {r}) \cup
                      { [r EXCEPT !.pc = "put_index",
                                  !.index = JsonLoads(got.bytes)] }
                /\ UNCHANGED resp
           ELSE /\ reqs' = reqs \ {r}
                /\ resp' = Response("/v1/envelope", r.headers, r.len, 500,
                                    got.err, None)
    /\ UNCHANGED << store, active, max_body, now, started, issued, answered,
                    envelopeVars, keyVars,
                    storageVars >>

\* A mutant of PutIndex: the index is written anew with the one entry.
PutIndexOverwrites(r) ==
    /\ resp = None
    /\ r \in reqs /\ r.pc = "put_index"
    /\ store' = put_bytes(store, key_receipt_index(r.trace_id),
                          JsonDumps(<< [hop_id |-> r.hop_id] >>))
    /\ reqs' = reqs \ {r}
    /\ answered' = [answered EXCEPT ![r.trace_id] = Append(@, r.hop_id)]
    /\ resp' = Response("/v1/envelope", r.headers, r.len, 201, "ok",
                        [receipt |-> r.receipt, body_cid |-> r.body_cid])
    /\ UNCHANGED << active, max_body, now, started, issued, envelopeVars, keyVars,
                    storageVars >>

\* Lines 217-220: index.append({"hop_id": hop_id}); STORAGE.put_bytes(idx_key,
\* index JSON); the 201 response with the receipt (and, for reference, the
\* content address of the body the request carried).
PutIndex(r) ==
    /\ resp = None
    /\ r \in reqs /\ r.pc = "put_index"
    /\ store' = put_bytes(store, key_receipt_index(r.trace_id),
                          JsonDumps(Append(r.index, [hop_id |-> r.hop_id])))
    /\ reqs' = reqs \ {r}
    /\ answered' = [answered EXCEPT ![r.trace_id] = Append(@, r.hop_id)]
    /\ resp' = Response("/v1/envelope", r.headers, r.len, 201, "ok",
                        [receipt |-> r.receipt, body_cid |-> r.body_cid])
    /\ UNCHANGED << active, max_body, now, started, issued, envelopeVars, keyVars,
                    storageVars >>

\* A storage call of the handler fails (a fault of the storage service): the
\* exception ends the request with status 500, whatever it has written.
StorageFault(r) ==
    /\ resp = None
    /\ r \in reqs
    /\ reqs' = reqs \ {r}
    /\ resp' = Response("/v1/envelope", r.headers, r.len, 500,
                        "storage fault", None)
    /\ UNCHANGED << store, active, max_body, now, started, issued, answered,
                    envelopeVars, keyVars,
                    storageVars >>

RECURSIVE ReadChain(_, _, _, _)
\* The loop of get_chain, lines 237-241, from entry i of the index on: the
\* receipts read so far, or the FileNotFoundError of a missing receipt.
ReadChain(s, trace_id, index, i) ==
    IF i > Len(index) THEN [ok |-> TRUE, chain |-> << >>]
    ELSE LET got == get_bytes(s, key_receipt(trace_id, index[i].hop_id))
         IN  IF ~got.ok THEN [ok |-> FALSE, err |-> got.err]
             ELSE LET rest == ReadChain(s, trace_id, index, i + 1)
                  IN  IF ~rest.ok THEN rest
                      ELSE [ok |-> TRUE,
                            chain |-> << JsonLoads(got.bytes) >> \o rest.chain]

\* A mutant of get_chain: the newest hop comes first.
GetChainNewestFirst(s, trace_id) ==
    LET idx_key == key_receipt_index(trace_id)
    IN  IF ~exists(s, idx_key) THEN [status |-> 200, chain |-> << >>]
        ELSE LET index == JsonLoads(get_bytes(s, idx_key).bytes)
                 r == ReadChain(s, trace_id,
                                [i \in 1..Len(index) |->
                                    index[Len(index) + 1 - i]], 1)
             IN  IF r.ok THEN [status |-> 200, chain |-> r.chain]
                 ELSE [status |-> 500, chain |-> << >>]

RECURSIVE ReadChainSkipping(_, _, _, _)
\* A mutant of the loop of get_chain: a hop without a receipt is left out.
ReadChainSkipping(s, trace_id, index, i) ==
    IF i > Len(index) THEN << >>
    ELSE LET got == get_bytes(s, key_receipt(trace_id, index[i].hop_id))
             rest == ReadChainSkipping(s, trace_id, index, i + 1)
         IN  IF got.ok THEN << JsonLoads(got.bytes) >> \o rest ELSE rest

\* A mutant of get_chain: an indexed hop without a receipt is skipped.
GetChainSkipsMissing(s, trace_id) ==
    LET idx_key == key_receipt_index(trace_id)
    IN  IF ~exists(s, idx_key) THEN [status |-> 200, chain |-> << >>]
        ELSE [status |-> 200,
              chain |-> ReadChainSkipping(
                            s, trace_id,
                            JsonLoads(get_bytes(s, idx_key).bytes), 1)]

\* A mutant of get_chain: a trace without an index is not found.
GetChainUnknownTraceFails(s, trace_id) ==
    LET idx_key == key_receipt_index(trace_id)
    IN  IF ~exists(s, idx_key) THEN [status |-> 404, chain |-> << >>]
        ELSE LET index == JsonLoads(get_bytes(s, idx_key).bytes)
                 r == ReadChain(s, trace_id, index, 1)
             IN  IF r.ok THEN [status |-> 200, chain |-> r.chain]
                 ELSE [status |-> 500, chain |-> << >>]

\* app.get_chain on storage s: the response status and the chain.
get_chain(s, trace_id) ==
    LET idx_key == key_receipt_index(trace_id)
    IN  IF ~exists(s, idx_key) THEN [status |-> 200, chain |-> << >>]
        ELSE LET index == JsonLoads(get_bytes(s, idx_key).bytes)
                 r == ReadChain(s, trace_id, index, 1)
             IN  IF r.ok THEN [status |-> 200, chain |-> r.chain]
                 ELSE [status |-> 500, chain |-> << >>]

\* app.list_hops on storage s.
list_hops(s, trace_id) ==
    LET idx_key == key_receipt_index(trace_id)
    IN  IF ~exists(s, idx_key) THEN << >>
        ELSE JsonLoads(get_bytes(s, idx_key).bytes)

\* GET /v1/receipts/hops/chain/{trace_id}
GetChain(trace_id) ==
    /\ resp = None
    /\ LET r == get_chain(store, trace_id)
       IN  resp' = Response("/v1/receipts/hops/chain", None, 0, r.status,
                            trace_id, r.chain)
    /\ UNCHANGED << store, active, max_body, now, started, reqs, issued,
                    answered, envelopeVars, keyVars,
                    storageVars >>

\* GET /v1/receipts/hops?trace_id=...
ListHops(trace_id) ==
    /\ resp = None
    /\ resp' = Response("/v1/receipts/hops", None, 0, 200, trace_id,
                        list_hops(store, trace_id))
    /\ UNCHANGED << store, active, max_body, now, started, reqs, issued,
                    answered, envelopeVars, keyVars,
                    storageVars >>

\* POST /echo: the size limit alone, then the length of the body.
Echo(headers, raw) ==
    /\ resp = None
    /\ LET gate == enforce_hel("/echo", headers, raw)
       IN  resp' = IF gate.status # 0
                   THEN Response("/echo", headers, BodyLen(raw), gate.status,
                                 gate.detail, None)
                   ELSE Response("/echo", headers, BodyLen(raw), 200, "ok",
                                 [len |-> BodyLen(raw)])
    /\ UNCHANGED << store, active, max_body, now, started, reqs, issued,
                    answered, envelopeVars, keyVars,
                    storageVars >>

\* The body of GET /.well-known/jwks.json
jwks == [keys |-> << jwk_from_pub(active.pub, active.kid) >>]

\* GET /.well-known/jwks.json
Jwks ==
    /\ resp = None
    /\ resp' = Response("/.well-known/jwks.json", None, 0, 200, "ok", jwks)
    /\ UNCHANGED << store, active, max_body, now, started, reqs, issued,
                    answered, envelopeVars, keyVars,
                    storageVars >>

\* The response leaves the gateway.
Respond ==
    /\ resp # None
    /\ resp' = None
    /\ UNCHANGED << store, active, max_body, now, started, reqs, issued,
                    answered, envelopeVars, keyVars,
                    storageVars >>

\* Time passes: the clock moves to a later instant.
Tick ==
    /\ resp = None
    /\ \E t \in Instants : t > now /\ now' = t
    /\ UNCHANGED << store, active, max_body, started, reqs, resp, issued,
                    answered, envelopeVars, keyVars,
                    storageVars >>

\* ------------------------------------------------------- specifications

\* The gateway after import: empty storage, the key triple of
\* load_active_key, MAX_BODY from the environment.
InitGateway ==
    /\ store = << >>
    /\ \E e \in Environments, generated \in GeneratedSeeds, today \in Dates :
         LET k == load_active_key(e, generated, today)
         IN  /\ k.ok
             /\ MaxBodyOf(e) >= 0
             /\ active = k.key
             /\ max_body = MaxBodyOf(e)
    /\ now = 0
    /\ started = 0
    /\ reqs = {}
    /\ resp = None
    /\ issued = [t \in TraceIds |-> << >>]
    /\ answered = [t \in TraceIds |-> << >>]

InitEnvelope == env = None /\ made = None /\ verdict = None

InitKeys == config = None /\ loaded = None

InitStorage == puts = << >> /\ outcome = None

Init == InitGateway /\ InitEnvelope /\ InitKeys /\ InitStorage

\* The steps of a request being handled, the reads, and the clock.
Serve ==
    \/ \E r \in reqs : PutReceipt(r)
    \/ \E r \in reqs : ExistsIndex(r)
    \/ \E r \in reqs : GetIndex(r)
    \/ \E r \in reqs : PutIndex(r)
    \/ \E r \in reqs : StorageFault(r)
    \/ \E t \in Traces : GetChain(t)
    \/ \E t \in Traces : ListHops(t)
    \/ Jwks
    \/ Respond
    \/ Tick

Next ==
    \/ \E headers \in ChainHeaders, raw \in ChainBodies :
         Envelope(headers, raw)
    \/ Serve

\* The gateway under /v1/envelope requests that may overlap.
Spec == Init /\ [][Next]_vars

\* A /v1/envelope request that arrives while no other is being handled.
EnvelopeAlone(headers, raw) == reqs = {} /\ Envelope(headers, raw)

NextSequential ==
    \/ \E headers \in ChainHeaders, raw \in ChainBodies :
         EnvelopeAlone(headers, raw)
    \/ Serve

\* The gateway under /v1/envelope requests handled one after another.
SpecSequential == Init /\ [][NextSequential]_vars

NextGate ==
    \/ \E headers \in GateHeaders, raw \in Bodies :
         EnvelopeAlone(headers, raw)
    \/ \E headers \in EchoHeaders, raw \in Bodies : Echo(headers, raw)
    \/ Serve

\* The gateway under requests of every size, with and without the headers.
SpecGate == Init /\ [][NextGate]_vars

NextAnyTrace ==
    \/ \E headers \in AnyHeaders :
         EnvelopeAlone(headers, [head |-> JsonHead, fill |-> 0])
    \/ Serve

\* The gateway under requests whose trace id and payload CID are any text.
SpecAnyTrace == Init /\ [][NextAnyTrace]_vars

NextEnvelope ==
    \/ BuildEnvelope
    \/ ReplacePayload
    \/ ReplaceSignature
    \/ SetField
    \/ Verify
    \/ Discard

\* The envelope verifier applied to envelopes as built and as tampered with.
SpecEnvelope == Init /\ [][NextEnvelope]_vars

\* ------------------------------------------------------------ key loading

\* The seeds that configured sources hold.
ConfiguredSeed == [i \in 1..KeyLen |-> 1]
JwksSeed == CHOOSE seed \in PemSeeds : seed[1] = 2
SecretSeed == CHOOSE seed \in PemSeeds : seed[1] = 3

\* Values of ODIN_ED25519_PRIV_B64: unset, a seed, text that is not base64
\* (one character), and the base64 of two bytes.
PrivB64Values ==
    { Unset, Set(b64url_no_pad(ConfiguredSeed)), Set(<< "a" >>),
      Set(<< "Q", "U", "I" >>) }

\* A Secret Manager resource name.
ResourceName ==
    << "p", "r", "o", "j", "e", "c", "t", "s", "/", "p", "/", "s", "e",
       "c", "r", "e", "t", "s", "/", "s", "/", "v", "e", "r", "s", "i",
       "o", "n", "s", "/", "1" >>

\* Values of ODIN_JWKS_PRIV: unset, a seed as 32 characters of text, a PEM
\* key, three characters, 40 characters that are no PEM, a resource name.
JwksPrivValues ==
    { Unset, Set([i \in 1..KeyLen |-> "s"]), Set(PemTextOf(JwksSeed)),
      Set(<< "a", "b", "c" >>), Set([i \in 1..40 |-> "j"]),
      Set(ResourceName) }

\* The secret store of a deployment: whether the client library is
\* installed, the variables that name the secret, and what the store answers
\* to access_secret_version (an error, a seed, a PEM key, or three bytes).
SecretStore(installed, secret_id, odin_project, google_project, reply) ==
    [ secretmanager |-> installed, ODIN_GCP_SECRET_ID |-> secret_id,
      ODIN_GCP_PROJECT |-> odin_project,
      GOOGLE_CLOUD_PROJECT |-> google_project, secret_reply |-> reply ]

SecretStores ==
    LET id      == Set(<< "s" >>)
        project == Set(<< "p" >>)
        failing == [ok |-> FALSE, err |-> "GoogleAPICallError"]
        seed    == [ok |-> TRUE, data |-> SecretSeed]
        pem     == [ok |-> TRUE, data |-> PemBytes[SecretSeed]]
        short   == [ok |-> TRUE, data |-> << 1, 2, 3 >>]
    IN  { SecretStore(FALSE, id, project, Unset, seed),
          SecretStore(TRUE, Unset, Unset, Unset, seed),
          SecretStore(TRUE, id, Unset, Unset, seed),
          SecretStore(TRUE, id, project, Unset, seed),
          SecretStore(TRUE, id, Unset, project, pem),
          SecretStore(TRUE, id, project, Unset, failing),
          SecretStore(TRUE, id, project, Unset, short) }

\* The deployments load_active_key is followed through.
Configurations ==
    { [ BareDeployment EXCEPT
          !.ODIN_KID = kid,
          !.ODIN_ED25519_PRIV_B64 = b64,
          !.ODIN_JWKS_PRIV = jwks_priv,
          !.cryptography = crypto,
          !.secretmanager = st.secretmanager,
          !.ODIN_GCP_SECRET_ID = st.ODIN_GCP_SECRET_ID,
          !.ODIN_GCP_PROJECT = st.ODIN_GCP_PROJECT,
          !.GOOGLE_CLOUD_PROJECT = st.GOOGLE_CLOUD_PROJECT,
          !.secret_reply = st.secret_reply ] :
        kid \in { Unset, Set(<< "k", "1" >>) },
        b64 \in PrivB64Values,
        jwks_priv \in JwksPrivValues,
        crypto \in BOOLEAN,
        st \in SecretStores }

\* The UTC dates load_active_key is called on.
KeyDates == { [year |-> 2025, month |-> 8], [year |-> 2026, month |-> 11] }

\* _PRIV, _PUB, _KID = load_active_key() in a starting process.
LoadActiveKey ==
    /\ config = None
    /\ \E e \in Configurations, generated \in GeneratedSeeds,
          today \in KeyDates :
         /\ config' = [e |-> e, generated |-> generated, today |-> today]
         /\ loaded' = load_active_key(e, generated, today)
    /\ UNCHANGED << gatewayVars, envelopeVars, storageVars >>

\* The process ends.
Exit ==
    /\ config # None
    /\ config' = None
    /\ loaded' = None
    /\ UNCHANGED << gatewayVars, envelopeVars, storageVars >>

NextKeys == LoadActiveKey \/ Exit

\* load_active_key in every deployment of the model.
SpecKeys == Init /\ [][NextKeys]_vars

\* ---------------------------------------------------------------- storage

\* How many put_bytes calls a run of the storage driver holds.
MaxPuts == 3

\* The trace and the hop ids of the keys written to the driver directly.
StoredTrace == << "t", "1" >>
StoredHops == << HopIdAt(0), HopIdAt(1) >>

\* The put_bytes calls made on the driver directly: the index of the trace
\* with one hop and with two, two receipts for the first hop, one for the
\* second.
StoragePuts ==
    LET entry(i) == [hop_id |-> StoredHops[i]]
        cid(i) == << "s", "h", "a", "2", "5", "6", ":", "A", "A", "A",
                     IF i = 1 THEN "A" ELSE "B" >>
    IN  { << key_receipt_index(StoredTrace), JsonDumps(<< entry(1) >>) >>,
          << key_receipt_index(StoredTrace),
             JsonDumps(<< entry(1), entry(2) >>) >>,
          << key_receipt(StoredTrace, StoredHops[1]),
             JsonDumps(BuildReceipt(StoredTrace, cid(1), 0)) >>,
          << key_receipt(StoredTrace, StoredHops[1]),
             JsonDumps(BuildReceipt(StoredTrace, cid(2), 0)) >>,
          << key_receipt(StoredTrace, StoredHops[2]),
             JsonDumps(BuildReceipt(StoredTrace, cid(1), 1)) >> }

\* The keys asked of the driver.
StorageKeys == { p[1] : p \in StoragePuts }

\* STORAGE.put_bytes(k, b)
PutBytes(k, b) ==
    /\ resp = None
    /\ Len(puts) < MaxPuts
    /\ store' = put_bytes(store, k, b)
    /\ puts' = Append(puts, << k, b >>)
    /\ outcome' = None
    /\ UNCHANGED << active, max_body, now, started, reqs, resp, issued,
                    answered, envelopeVars, keyVars >>

\* STORAGE.get_bytes(k)
GetBytes(k) ==
    /\ resp = None
    /\ outcome' = [op |-> "get_bytes", k |-> k, result |-> get_bytes(store, k)]
    /\ UNCHANGED << gatewayVars, envelopeVars, keyVars, puts >>

\* STORAGE.exists(k)
Exists(k) ==
    /\ resp = None
    /\ outcome' = [op |-> "exists", k |-> k, result |-> exists(store, k)]
    /\ UNCHANGED << gatewayVars, envelopeVars, keyVars, puts >>

NextStorage ==
    \/ \E p \in StoragePuts : PutBytes(p[1], p[2])
    \/ \E k \in StorageKeys : GetBytes(k)
    \/ \E k \in StorageKeys : Exists(k)
    \/ GetChain(StoredTrace)
    \/ ListHops(StoredTrace)
    \/ Respond

\* The storage driver under any calls, and the reads of the gateway on what
\* they leave.
SpecStorage == Init /\ [][NextStorage]_vars

\* ----------------------------------------------------------------- claims

\* The hop ids the clock of the model can produce.
HopIds == { HopIdAt(t) : t \in Instants }

\* The receipt keys of the model's traces and hop ids.
ReceiptKeys == { key_receipt(t, h) : t \in Traces, h \in HopIds }

ChainPath == "/v1/receipts/hops/chain"

\* C1: in every reachable state, whatever the interleaving of /v1/envelope
\* requests and wherever a storage fault stops one, every hop id listed in
\* a trace's stored index has a receipt stored under its receipt key, and
\* get_chain answers 200: it never meets an indexed hop without a receipt.
C1_IndexedHopsHaveReceipts ==
    /\ \A t \in Traces :
         LET index == list_hops(store, t)
         IN  /\ \A i \in 1..Len(index) :
                  exists(store, key_receipt(t, index[i].hop_id))
             /\ get_chain(store, t).status = 200
    /\ (resp # None /\ resp.path = ChainPath) => resp.status = 200

\* C1's case: a chain was read of a trace whose index lists a hop, while
\* storage also holds a receipt of that trace that its index does not list
\* (the request stopped between the two writes).
C1_Witness ==
    /\ resp # None /\ resp.path = ChainPath /\ Len(resp.body) = 1
    /\ reqs = {}
    /\ \E t \in {resp.detail}, h \in HopIds :
         /\ exists(store, key_receipt(t, h))
         /\ \A i \in 1..Len(list_hops(store, t)) :
              list_hops(store, t)[i].hop_id # h

\* C2: with /v1/envelope requests handled one after another, each admitted
\* request replaces the trace's index by the previous index plus the one
\* entry {hop_id} at its end; no other step changes an index, and an index
\* once written stays, non-empty.
C2_IndexAppendOnly ==
    [][ \A t \in Traces :
          LET k   == key_receipt_index(t)
              old == list_hops(store, t)
              new == list_hops(store', t)
          IN  /\ exists(store, k) => exists(store', k)
              /\ exists(store', k) => Len(new) >= 1
              /\ IF answered'[t] # answered[t]
                 THEN new = Append(old, [hop_id |->
                                 answered'[t][Len(answered'[t])]])
                 ELSE new = old /\ (exists(store', k) <=> exists(store, k))
      ]_vars

\* C2's case: an index that two requests in a row have appended to.
C2_Witness ==
    \E t \in Traces :
        /\ Len(list_hops(store, t)) = 2
        /\ Len(answered[t]) = 2

\* C3: with /v1/envelope requests handled one after another, the chain that
\* get_chain returns has one receipt per index entry in index order: after N
\* admitted requests on a trace its length is N and its i-th receipt carries
\* the hop id of the i-th admitted request.
C3_ChainInAdmissionOrder ==
    (resp # None /\ resp.path = ChainPath) =>
        LET t     == resp.detail
            index == list_hops(store, t)
        IN  /\ resp.status = 200
            /\ Len(resp.body) = Len(answered[t])
            /\ Len(resp.body) = Len(index)
            /\ \A i \in 1..Len(resp.body) :
                 /\ resp.body[i].hop_id = answered[t][i]
                 /\ resp.body[i].hop_id = index[i].hop_id
                 /\ resp.body[i].trace_id = t

\* C3's case: the chain of two admitted requests with different hop ids.
C3_Witness ==
    /\ resp # None /\ resp.path = ChainPath
    /\ Len(resp.body) = 2
    /\ resp.body[1].hop_id # resp.body[2].hop_id

\* C4 (as claimed): the hop ids generated for the admitted requests of one
\* trace are pairwise distinct and strictly increasing in emission order.
C4_HopIdsStrictlyIncreasing ==
    \A t \in Traces :
        \A i, j \in 1..Len(issued[t]) :
            i < j => DecimalValue(issued[t][i], 0) < DecimalValue(issued[t][j], 0)

\* C5 (as claimed): once bytes are stored under a receipt key, no step of the
\* gateway changes the bytes stored under that key.
C5_ReceiptsImmutable ==
    [][ \A k \in ReceiptKeys :
          exists(store, k) => (exists(store', k) /\ store'[k] = store[k])
      ]_vars

\* The receipts the gateway holds or has handed out: those of the requests
\* being handled, those in storage, and the one of a 201 response.
ReceiptsIssued ==
    { r.receipt : r \in reqs }
    \cup { JsonLoads(store[k]) : k \in ReceiptKeys \cap DOMAIN store }
    \cup (IF resp # None /\ resp.status = 201 THEN { resp.body.receipt }
          ELSE {})

\* Whether receipt rc names the key the JWKS publishes and carries the
\* signature of that key's private key over trace_id + "." + payload_cid.
SignedByPublishedKey(rc) ==
    LET entry == jwks.keys[1]
        x     == b64url_to_bytes(entry.x)
        sig   == b64url_to_bytes(rc.signature.sig)
        msg   == EncodeUtf8(rc.trace_id \o << "." >> \o rc.payload_cid)
    IN  /\ rc.signature.kid = entry.kid
        /\ x.ok /\ sig.ok
        /\ x.bytes = PubOf(active.priv)
        /\ sig.bytes = sign_bytes(active.priv, msg).bytes
        /\ verify_ed25519(x.bytes, msg, sig.bytes) = [ok |-> TRUE, value |-> TRUE]

\* C6: no receipt exists at start-up; every receipt that a step issues or
\* stores carries in signature.kid the kid of the single JWKS entry, and its
\* signature value is the signature over trace_id + "." + payload_cid made
\* with the private key whose public key that entry publishes; no step
\* changes the key triple, so this holds of every receipt in every state.
C6_ReceiptsSignedByPublishedKey ==
    /\ ReceiptsIssued = {}
    /\ Len(jwks.keys) = 1
    /\ [][ /\ active' = active
           /\ \A rc \in ReceiptsIssued' \ ReceiptsIssued :
                SignedByPublishedKey(rc) ]_vars

\* C6's case: a receipt was handed out (201) and is in storage, under a
\* configured key id.
C6_Witness ==
    /\ resp # None /\ resp.status = 201
    /\ active.kid = << "k", "1" >>
    /\ \E k \in ReceiptKeys \cap DOMAIN store :
         JsonLoads(store[k]) = resp.body.receipt

\* C7 (as claimed): the payload_cid of every receipt issued is the content
\* address cid_v0 of the body of the request it was issued for.
C7_PayloadCidIsBodyCid ==
    /\ \A r \in reqs : r.receipt.payload_cid = r.body_cid
    /\ (resp # None /\ resp.status = 201) =>
           resp.body.receipt.payload_cid = resp.body.body_cid

\* C8 (as claimed): verify_envelope is True on an envelope built from a
\* public key, a payload and its signature under the private key, and returns
\* False once the payload or the signature is replaced by a different value.
C8_VerifyDetectsReplacement ==
    verdict # None =>
        /\ made.changed = "nothing" => verdict = [ok |-> TRUE, value |-> TRUE]
        /\ made.changed \in {"payload", "signature"} =>
               verdict = [ok |-> TRUE, value |-> FALSE]

\* C9 (as claimed): verify_envelope never raises; on an envelope whose key is
\* not 32 bytes, whose signature is not 64 bytes or whose fields do not
\* decode it returns False.
C9_VerifyNeverRaises ==
    verdict # None =>
        /\ verdict.ok
        /\ LET pub == sender_pubkey_bytes(env)
               sig == signature_bytes(env)
               pay == payload_bytes(env)
           IN  (\/ ~pub.ok \/ ~sig.ok \/ ~pay.ok
                \/ Len(pub.bytes) # KeyLen
                \/ Len(sig.bytes) # SigLen) => verdict.value = FALSE

\* C10: the size check admits a request if and only if its body is no longer
\* than MAX_BODY, on /echo and on /v1/envelope: a request answered 413 is
\* longer, any other answer but a missing-header refusal (which comes first
\* on /v1/envelope) means it is not, and every request in handling passed.
\* With the default limit hel.check_payload_size draws the same line.
C10_SizeLimitExact ==
    /\ \A r \in reqs : r.len <= max_body
    /\ (resp # None /\ resp.path \in {"/echo", "/v1/envelope"}) =>
         LET header_refusal ==
                 resp.detail \in { "missing header X-ODIN-Trace-Id",
                                   "missing header X-ODIN-Payload-CID" }
         IN  /\ resp.status = 413 => resp.len > max_body
             /\ resp.status = 413 <=> (resp.len > max_body /\ ~header_refusal)
             /\ header_refusal => (resp.status = 400 /\ resp.path # "/echo")
             /\ (resp.path = "/echo" /\ resp.len <= max_body) =>
                    (resp.status = 200 /\ resp.body.len = resp.len)
             /\ (max_body = MAX_PAYLOAD_BYTES /\ ~header_refusal) =>
                    (check_payload_size(resp.len)[1] <=> resp.status # 413)

\* C10's case: a body of exactly the default 65536 bytes was echoed.
C10_Witness ==
    /\ resp # None /\ resp.path = "/echo"
    /\ max_body = 65536 /\ resp.len = max_body /\ resp.status = 200

\* C11: a /v1/envelope request goes on to handling only with both
\* X-ODIN-Trace-Id and X-ODIN-Payload-CID present; with either absent it is
\* answered 400 with the missing-header detail naming the first absent one,
\* whatever its body; /echo never answers 400 for a header, and answers 413
\* exactly for a body longer than MAX_BODY.  hel.check_required_headers
\* accepts the same header sets.
C11_HeadersRequired ==
    /\ \A r \in reqs : r.headers.trace.set /\ r.headers.cid.set
    /\ (resp # None /\ resp.path = "/v1/envelope") =>
         LET h == resp.headers
         IN  /\ ~h.trace.set =>
                   /\ resp.status = 400
                   /\ resp.detail = "missing header X-ODIN-Trace-Id"
             /\ (h.trace.set /\ ~h.cid.set) =>
                   /\ resp.status = 400
                   /\ resp.detail = "missing header X-ODIN-Payload-CID"
             /\ (h.trace.set /\ h.cid.set) =>
                   resp.detail \in { "payload too large",
                                     "invalid JSON payload", "ok",
                                     "storage fault", "FileNotFoundError" }
             /\ resp.status \in {201, 500} => (h.trace.set /\ h.cid.set)
             /\ check_required_headers(h)[1] <=> (h.trace.set /\ h.cid.set)
    /\ (resp # None /\ resp.path = "/echo") =>
         /\ resp.status \in {200, 413}
         /\ resp.status = 413 <=> resp.len > max_body

\* C11's case: a /v1/envelope request with a trace id and a body within the
\* limit, refused for the absent X-ODIN-Payload-CID.
C11_Witness ==
    /\ resp # None /\ resp.path = "/v1/envelope"
    /\ resp.headers.trace.set /\ ~resp.headers.cid.set
    /\ resp.len <= max_body /\ resp.status = 400

\* Whether key is usable key material: a 32-byte seed with its public key.
Usable(key) ==
    /\ Len(key.priv) = KeyLen
    /\ key.pub = PubOf(key.priv)
    /\ sign_bytes(key.priv, << >>).ok

\* C12 (as claimed): in every deployment load_active_key returns usable key
\* material, so a configured source that yields no usable key leads on to
\* the ephemeral key.
C12_AlwaysLoadsAKey ==
    loaded # None => (loaded.ok /\ Usable(loaded.key))

\* C13 (as claimed): whichever source yields the active key, its kid is the
\* configured ODIN_KID when one is configured, and the synthesized
\* "gw-<year>-<two-digit month>" of the day only when none is.
C13_KidIsConfiguredOrSynthesized ==
    (loaded # None /\ loaded.ok) =>
        loaded.key.kid =
            IF config.e.ODIN_KID.set /\ config.e.ODIN_KID.v # << >>
            THEN config.e.ODIN_KID.v
            ELSE << "g", "w", "-" >> \o DecimalText(config.today.year)
                     \o << "-" >> \o TwoDigits(config.today.month)

HopsPath == "/v1/receipts/hops"

\* C14: get_chain and list_hops on a trace that has no index key in storage
\* answer 200 with the empty list, and no get_chain or list_hops step
\* changes storage.
C14_UnknownTraceIsEmpty ==
    /\ [](\A t \in Traces :
            ~exists(store, key_receipt_index(t)) =>
                /\ get_chain(store, t) = [status |-> 200, chain |-> << >>]
                /\ list_hops(store, t) = << >>
                /\ (resp # None /\ resp.path \in {ChainPath, HopsPath}
                      /\ resp.detail = t) =>
                       (resp.status = 200 /\ resp.body = << >>))
    /\ [][ (resp = None /\ resp' # None
              /\ resp'.path \in {ChainPath, HopsPath}) => store' = store ]_vars

\* C14's case: the chain of a trace without an index was asked for while
\* storage holds keys (of that trace's unindexed receipt or of another
\* trace).
C14_Witness ==
    /\ resp # None /\ resp.path = ChainPath
    /\ ~exists(store, key_receipt_index(resp.detail))
    /\ DOMAIN store # {}

\* C15: when the index of a trace lists a hop id whose receipt is not in
\* storage, get_chain answers with an error (500) and no chain; it answers
\* 200 only with one receipt per index entry, so no hop is left out, and the
\* error differs from the 200 and empty chain of a trace without an index.
C15_MissingReceiptIsAnError ==
    LET t == StoredTrace
        index == list_hops(store, t)
        broken == \E i \in 1..Len(index) :
                      ~exists(store, key_receipt(t, index[i].hop_id))
        chain == get_chain(store, t)
    IN  /\ broken => (chain.status = 500 /\ chain.chain = << >>)
        /\ ~broken => (chain.status = 200 /\ Len(chain.chain) = Len(index))
        /\ chain.status = 200 =>
               \A i \in 1..Len(index) :
                   chain.chain[i].hop_id = index[i].hop_id
        /\ (resp # None /\ resp.path = ChainPath) =>
               /\ resp.status = chain.status /\ resp.body = chain.chain
               /\ broken => resp.status # 200

\* C15's case: the chain was asked for while the index lists two hops and
\* the receipt of one of them only is in storage.
C15_Witness ==
    /\ resp # None /\ resp.path = ChainPath /\ resp.status = 500
    /\ Len(list_hops(store, StoredTrace)) = 2
    /\ \E i \in 1..2 : exists(store, key_receipt(StoredTrace, StoredHops[i]))

\* The position of the last put_bytes call on key k, 0 when there is none.
LastPut(k) ==
    IF \E i \in 1..Len(puts) : puts[i][1] = k
    THEN CHOOSE i \in 1..Len(puts) :
            /\ puts[i][1] = k
            /\ \A j \in (i + 1)..Len(puts) : puts[j][1] # k
    ELSE 0

\* C16: after any sequence of put_bytes, get_bytes and exists calls on the
\* storage driver, exists(k) is true exactly when a put_bytes(k, .) has
\* occurred, get_bytes(k) then returns the bytes of the latest put_bytes on
\* k, and on a key never put it raises FileNotFoundError; a step that is
\* not a put_bytes call (get_bytes and exists among them) leaves the stored
\* keys and bytes unchanged.
C16_StorageKeepsLatestPut ==
    /\ [](/\ \A k \in StorageKeys :
               /\ exists(store, k) <=> LastPut(k) # 0
               /\ get_bytes(store, k) =
                      IF LastPut(k) # 0
                      THEN [ok |-> TRUE, bytes |-> puts[LastPut(k)][2]]
                      ELSE [ok |-> FALSE, err |-> "FileNotFoundError"]
          /\ outcome # None =>
                 outcome.result = IF outcome.op = "exists"
                                  THEN exists(store, outcome.k)
                                  ELSE get_bytes(store, outcome.k))
    /\ [][ puts' = puts => store' = store ]_vars

\* C16's case: get_bytes returned the bytes of the second of two put_bytes
\* calls on one key.
C16_Witness ==
    /\ outcome # None /\ outcome.op = "get_bytes" /\ outcome.result.ok
    /\ \E i \in 1..Len(puts) :
         /\ i < LastPut(outcome.k)
         /\ puts[i][1] = outcome.k
         /\ puts[i][2] # outcome.result.bytes

\* C17: the index update of the envelope handler is not atomic.  When a
\* request writes the index it read before another request on the same trace
\* wrote and was answered 201, the stored index becomes the writer's own
\* list, which omits the other request's hop_id, while that hop's receipt is
\* stored.
C17_LastWriterOmitsOtherHop ==
    [][ \A r \in reqs :
          (/\ r.pc = "put_index" /\ r \notin reqs'
           /\ resp' # None /\ resp'.status = 201) =>
          LET t     == r.trace_id
              after == list_hops(store', t)
          IN  /\ after = Append(r.index, [hop_id |-> r.hop_id])
              /\ \A i \in 1..Len(answered[t]) :
                   LET h == answered[t][i]
                   IN  (\A j \in 1..Len(r.index) : r.index[j].hop_id # h) =>
                         /\ \A j \in 1..Len(after) : after[j].hop_id # h
                         /\ exists(store', key_receipt(t, h)) ]_vars

\* The sources of load_active_key, in the order of jwks_loader.py.
SourceOrder ==
    << "ODIN_ED25519_PRIV_B64", "ODIN_JWKS_PRIV", "secret store", "ephemeral" >>

\* What source i of SourceOrder yields on its own in configuration c: the
\* loader of that source, run with the other environment source unset.
Yield(c, i) ==
    CASE i = 1 -> load_priv_from_env(
                      [c.e EXCEPT !.ODIN_JWKS_PRIV = Unset], c.today)
      [] i = 2 -> load_priv_from_env(
                      [c.e EXCEPT !.ODIN_ED25519_PRIV_B64 = Unset], c.today)
      [] i = 3 -> load_priv_from_gcp_secret(c.e, c.today)
      [] i = 4 -> [ok |-> TRUE, found |-> TRUE,
                   key |-> [priv |-> c.generated, pub |-> PubOf(c.generated),
                            kid |-> default_kid(c.today)]]

\* C18: load_active_key consults ODIN_ED25519_PRIV_B64, ODIN_JWKS_PRIV, the
\* secret store and ephemeral generation in that order, each at most once;
\* every source consulted before the last one yielded no key, and a key
\* that is returned is the key of the last source consulted.
C18_FirstSourceWins ==
    loaded # None =>
        LET n == Len(loaded.consulted)
        IN  /\ n \in 1..Len(SourceOrder)
            /\ loaded.consulted = SubSeq(SourceOrder, 1, n)
            /\ \A i \in 1..(n - 1) :
                 Yield(config, i).ok /\ ~Yield(config, i).found
            /\ loaded.ok =>
                 /\ Yield(config, n).ok /\ Yield(config, n).found
                 /\ loaded.key = Yield(config, n).key

\* C18's case: ODIN_ED25519_PRIV_B64 yields nothing, ODIN_JWKS_PRIV holds a
\* PEM key and the secret store holds another key: the key of
\* ODIN_JWKS_PRIV is returned and the secret store is not consulted.
C18_Witness ==
    /\ loaded # None /\ loaded.ok
    /\ loaded.consulted = SubSeq(SourceOrder, 1, 2)
    /\ loaded.key.priv = JwksSeed
    /\ Yield(config, 3).ok /\ Yield(config, 3).found
    /\ Yield(config, 3).key.priv = SecretSeed

\* C19 (as claimed): the gateway app holds only what is derived from the
\* key: none of the values it binds at import from load_active_key is the
\* raw private seed of the public key it has.
C19_AppHoldsNoSeed ==
    \A f \in DOMAIN active \ {"kid"} :
        ~(Len(active[f]) = KeyLen /\ PubOf(active[f]) = active.pub)

\* C20: a /v1/envelope request that lacks a required header, carries a body
\* longer than MAX_BODY or is answered 400 or 413 (a body that is not JSON
\* among them) is refused at once, and its answer leaves storage and the
\* requests in handling as they were; every receipt in storage has the
\* policy verdict "allow".
C20_RejectedLeavesStorageUnchanged ==
    /\ [](\A k \in ReceiptKeys \cap DOMAIN store :
              store[k].json.policy.verdict = "allow")
    /\ [][ (resp = None /\ resp' # None /\ resp'.path = "/v1/envelope") =>
             LET h == resp'.headers
                 rejected == \/ ~h.trace.set \/ ~h.cid.set
                             \/ resp'.len > max_body
                             \/ resp'.status \in {400, 413}
             IN  rejected => /\ resp'.status \in {400, 413}
                             /\ resp'.body = None
                             /\ store' = store
                             /\ reqs' = reqs ]_vars

\* C20's case: a request with both headers and a body that is not JSON is
\* refused while storage holds the receipt and the index of an earlier one.
C20_Witness ==
    /\ resp # None /\ resp.path = "/v1/envelope"
    /\ resp.status = 400 /\ resp.detail = "invalid JSON payload"
    /\ \E k \in ReceiptKeys : k \in DOMAIN store
    /\ \E t \in Traces : exists(store, key_receipt_index(t))

\* The index keys of the model's trace ids.
IndexKeys == { key_receipt_index(t) : t \in TraceIds }

\* The receipts in storage and those of the requests being handled.
ReceiptsHeld ==
    { JsonLoads(store[k]) : k \in DOMAIN store \ IndexKeys }
    \cup { r.receipt : r \in reqs }

\* f"{trace_id}.{payload_cid}".encode("utf-8") of receipt rc.
SigInputOf(rc) == EncodeUtf8(rc.trace_id \o << "." >> \o rc.payload_cid)

\* C21 (as claimed): two receipts issued for different (trace_id,
\* payload_cid) pairs have different signing inputs, and the signature of
\* one does not verify over the signing input of the other.
C21_SigningInputInjective ==
    \A r1, r2 \in ReceiptsHeld :
        << r1.trace_id, r1.payload_cid >> # << r2.trace_id, r2.payload_cid >>
        => /\ SigInputOf(r1) # SigInputOf(r2)
           /\ NaclVerify(active.pub, SigInputOf(r2),
                         b64url_to_bytes(r1.signature.sig).bytes) # "ok"

\* The storage keys a request in handling writes: its receipt key and the
\* index key of its trace.
KeysOf(r) ==
    { key_receipt(r.trace_id, r.hop_id), key_receipt_index(r.trace_id) }

\* C22: the receipt key of a trace and hop equals neither the receipt key of
\* another trace or hop nor any index key, and index keys of different
\* traces differ, also for trace ids with "/" or "." in them; a step that
\* changes storage writes only the receipt key or the index key of one
\* request in handling, removes nothing, and leaves the index and the
\* receipts of every other trace as they were.
C22_TracesIsolated ==
    /\ \A t1, t2 \in TraceIds :
         /\ key_receipt_index(t1) = key_receipt_index(t2) => t1 = t2
         /\ \A h1, h2 \in HopIds :
              /\ key_receipt(t1, h1) # key_receipt_index(t2)
              /\ key_receipt(t1, h1) = key_receipt(t2, h2) =>
                     (t1 = t2 /\ h1 = h2)
    /\ [][ store' # store =>
             \E r \in reqs :
               /\ DOMAIN store \subseteq DOMAIN store'
               /\ \A k \in DOMAIN store' \ KeysOf(r) :
                    k \in DOMAIN store /\ store'[k] = store[k]
               /\ \A t \in TraceIds \ { r.trace_id } :
                    /\ list_hops(store', t) = list_hops(store, t)
                    /\ \A h \in HopIds :
                         get_bytes(store', key_receipt(t, h)) =
                             get_bytes(store, key_receipt(t, h)) ]_vars

\* C22's case: a hop on trace "a/hops" was answered 201 while storage holds
\* the index and a receipt of trace "a".
C22_Witness ==
    /\ resp # None /\ resp.path = "/v1/envelope" /\ resp.status = 201
    /\ resp.headers.trace.v = << "a", "/", "h", "o", "p", "s" >>
    /\ Len(list_hops(store, << "a" >>)) = 1
    /\ exists(store, key_receipt(<< "a" >>,
                                 list_hops(store, << "a" >>)[1].hop_id))
    /\ Len(list_hops(store, resp.headers.trace.v)) = 1

=============================================================================
